---- MODULE Spec2Model ----
(***************************************************************************)
(* A model of rad-flux's Actions class (src/src/actions.js): a registry of *)
(* named actions, each an object {subscribers, func}.  The registry's      *)
(* methods run synchronously on one call stack; handlers and subscriber    *)
(* callbacks are user code, which may re-enter the registry.  The model    *)
(* keeps the JavaScript call stack explicitly: a frame for every running   *)
(* publish loop and for every running user function.  User code is         *)
(* nondeterministic: while a user function is on top of the stack (or the  *)
(* stack is empty, the application's top level) any method may be called.  *)
(***************************************************************************)
EXTENDS Integers, Sequences, FiniteSets, TLC

\* ------------------------------------------------------------------ bounds
\* The deepest call stack of the re-entrant runs, in frames: a call is made
\* only where the frames it can push (a publish loop and the subscriber it
\* invokes, or a handler) still fit.
MaxDepth == 2

\* The deepest call stack of the runs with nested calls, in frames: a publish
\* loop and its subscriber, the handler that subscriber calls, and the loop
\* and subscriber of the done function the handler invokes.
NestedDepth == 5

\* ------------------------------------------------------------ JS values
\* The keys of the object given to the constructor, in property order.
DeclaredOrder == <<"a", "b">>
Declared == {DeclaredOrder[i] : i \in 1..Len(DeclaredOrder)}
\* A string that is no property of the actions object at all.
Unknown == "y"
\* A string the actions object resolves through Object.prototype.
Inherited == "constructor"
\* A key that is not a string (the number 7).
NumberKey == "<7>"
Keys == Declared \cup {Unknown, Inherited, NumberKey}

Callbacks == {"c1", "c2"}
\* One more function, for the runs about the order of three subscribers.
ThirdCallback == "c3"
OrderCallbacks == Callbacks \cup {ThirdCallback}
Handlers == {"h1", "h2"}
\* A value that is not a function (a plain object).
NotCallable == "<object>"
Null == "null"
UndefinedValue == "undefined"
Data == {"d1", "d2"}

typeof(v) ==
  IF v \in OrderCallbacks \cup Handlers THEN "function"
  ELSE IF v = NumberKey THEN "number"
  ELSE IF v = NotCallable THEN "object"
  ELSE IF v = UndefinedValue THEN "undefined"
  ELSE IF v = Null THEN "object"
  ELSE "string"

VARIABLES
  actions,   \* this.actions: own property name -> [type, subscribers, func]
  heap,      \* the subscriber arrays: array reference -> sequence of callbacks
  stack,     \* the JavaScript call stack, innermost frame last
  dones,     \* the keys for which buildDoneFunction has produced a done function
  last,      \* the step just taken: the method, its arguments and its outcome
  before,    \* history: <<key, x, y>> when x's current subscription to key was made before y's
  unsubbed,  \* history: <<key, cb>> when unsubscribe(key, cb) returned and no on(key, cb) succeeded since
  observe    \* the histories kept in this run, of "calls", "order", "unsub", "cycle"; never changes

vars == <<actions, heap, stack, dones, last, before, unsubbed, observe>>

\* ------------------------------------------------------- property lookup
NoArray == 0
\* The value of a lookup that finds nothing.
Undefined == [type |-> "undefined", subscribers |-> NoArray, func |-> UndefinedValue]
\* Object.prototype.constructor: a function, with no subscribers and no func property.
ObjectConstructor == [type |-> "function", subscribers |-> NoArray, func |-> UndefinedValue]

\* this.actions[key] after the property key conversion: own properties first,
\* then the prototype chain.
Lookup(key) ==
  IF key \in DOMAIN actions THEN actions[key]
  ELSE IF key = Inherited THEN ObjectConstructor
  ELSE Undefined

\* if (action)
Truthy(action) == action.type # "undefined"

\* Object.defineProperty(this.actions, key, {writable: false, value}): sets the
\* value of an own property, creating the property when there is none.
defineProperty(obj, key, value) ==
  [k \in DOMAIN obj \cup {key} |-> IF k = key THEN value ELSE obj[k]]

\* The contents of the action's subscriber array, for a declared key.
Subscribers(key) == heap[actions[key].subscribers]

\* ------------------------------------------------------- array methods
\* Array.prototype.includes
includes(subs, callback) == \E i \in 1..Len(subs) : subs[i] = callback

\* Array.prototype.unshift: the element is put first.
unshift(subs, callback) == <<callback>> \o subs

\* Array.prototype.push
push(subs, callback) == Append(subs, callback)

\* A removal that fills the hole with the last element instead of shifting
\* the elements after it.
spliceSwapLast(subs, i) ==
  IF i = Len(subs) THEN SubSeq(subs, 1, i - 1)
  ELSE SubSeq(subs, 1, i - 1) \o <<subs[Len(subs)]>> \o SubSeq(subs, i + 1, Len(subs) - 1)

\* Array.prototype.splice(i, 1), i counted from 1
splice(subs, i) == SubSeq(subs, 1, i - 1) \o SubSeq(subs, i + 1, Len(subs))

\* The loop of unsubscribe: the index of the first element identical to
\* callback at or after i, 0 when there is none.
RECURSIVE firstMatch(_, _, _)
firstMatch(subs, callback, i) ==
  IF i > Len(subs) THEN 0
  ELSE IF callback = subs[i] THEN i
  ELSE firstMatch(subs, callback, i + 1)

\* A loop that finds the callback and removes nothing.
unsubscribeLoopNoSplice(subs, callback) == subs

\* The subscriber array after unsubscribe's loop.
unsubscribeLoop(subs, callback) ==
  LET i == firstMatch(subs, callback, 1) IN
  IF i = 0 THEN subs ELSE splice(subs, i)

\* ------------------------------------------------------- the call stack
UserKinds == {"cb", "handler"}
Top == stack[Len(stack)]
Pop(stk) == SubSeq(stk, 1, Len(stk) - 1)

\* User code is running: the application's top level, or a handler or a
\* subscriber callback on top of the stack.
UserTurn == IF Len(stack) = 0 THEN TRUE ELSE Top.kind \in UserKinds

\* The step just taken.
Ev(op, key, arg, res, msg) ==
  [op |-> op, key |-> key, arg |-> arg, res |-> res, msg |-> msg]

\* What last keeps of a method call made by user code: all of it when the
\* run keeps the history of calls, the method's name and outcome otherwise.
Note(e) == IF "calls" \in observe THEN e ELSE [op |-> e.op, res |-> e.res]

\* History kept in the frames of the publish loops of key when its subscriber
\* list is changed by on (added) or unsubscribe.
Touch(stk, key, added) ==
  [i \in 1..Len(stk) |->
     IF stk[i].kind = "publish" /\ stk[i].key = key
     THEN [stk[i] EXCEPT !.dirty = TRUE, !.banned = @ \ added]
     ELSE stk[i]]

\* History kept in the frames of the publish loops of key when callback is
\* removed from its subscriber list: the callbacks unsubscribed while the
\* loop runs.
Removed(stk, key, callback) ==
  [i \in 1..Len(stk) |->
     IF stk[i].kind = "publish" /\ stk[i].key = key /\ "cycle" \in observe
     THEN [stk[i] EXCEPT !.removed = @ \cup {callback}]
     ELSE stk[i]]

\* The history before without the subscription of callback to key.
Without(bef, key, callback) ==
  {t \in bef : ~(t[1] = key /\ callback \in {t[2], t[3]})}

\* The history before after unsubscribe(key, callback): the subscription of
\* callback is forgotten, and <<key, x, y, "gap">> records that x and y, still
\* subscribed in this order, had callback subscribed between them.
Unsubscribed(bef, key, callback) ==
  Without(bef, key, callback)
    \cup {<<key, p[1], p[2], "gap">> : p \in
            {q \in OrderCallbacks \X OrderCallbacks :
               /\ q[1] # callback /\ q[2] # callback
               /\ <<key, q[1], callback>> \in bef
               /\ <<key, callback, q[2]>> \in bef}}

\* The history before after a new subscription of callback to key: it comes
\* after every subscription to key that is in force (<<key, x, x>> marks x's).
Subscribed(bef, key, callback) ==
  Without(bef, key, callback)
    \cup {<<key, t[2], callback>> : t \in {u \in Without(bef, key, callback) : u[1] = key /\ u[2] = u[3]}}
    \cup {<<key, callback, callback>>}

\* The arrays user code or the registry can still reach: the subscribers of
\* the actions and the arrays running publish loops iterate.  An array that
\* registerAsync replaced and no loop iterates is garbage: its contents can
\* never be read again, and the model forgets them.
Reachable(acts, stk) ==
  {acts[k].subscribers : k \in DOMAIN acts}
    \cup {stk[i].arr : i \in {j \in 1..Len(stk) : stk[j].kind = "publish"}}

Collect(h, acts, stk) ==
  [i \in 1..Len(h) |-> IF i \in Reachable(acts, stk) THEN h[i] ELSE <<>>]

\* ------------------------------------------------------- constructor
InitWith(histories) ==
  /\ actions = [k \in Declared |->
                  [type |-> "object",
                   subscribers |-> CHOOSE i \in 1..Len(DeclaredOrder) : DeclaredOrder[i] = k,
                   func |-> Null]]
  /\ heap = [i \in 1..Len(DeclaredOrder) |-> <<>>]
  /\ stack = <<>>
  /\ dones = {}
  /\ last = Ev("constructor", "", "", UndefinedValue, "")
  /\ before = {}
  /\ unsubbed = {}
  /\ observe = histories

Init == InitWith({"calls"})

\* ------------------------------------------------------- registerAsync
\* registerAsync with the type checks only.
registerAsyncCheckTypesOnly(key, func) ==
  IF typeof(key) # "string" THEN <<"TypeError", "key argument must be a string">>
  ELSE IF typeof(func) # "function" THEN <<"TypeError", "func argument must be a function">>
  ELSE <<UndefinedValue, "">>

\* registerAsync without the check for a handler already attached.
registerAsyncCheckNoAttached(key, func) ==
  IF typeof(key) # "string" THEN <<"TypeError", "key argument must be a string">>
  ELSE IF typeof(func) # "function" THEN <<"TypeError", "func argument must be a function">>
  ELSE IF Lookup(key).type = "undefined" THEN <<"Error", "action not declared">>
  ELSE <<UndefinedValue, "">>

\* registerAsync that looks the action up before it checks the types.
registerAsyncCheckLookupFirst(key, func) ==
  IF Lookup(key).type = "undefined" THEN <<"Error", "action not declared">>
  ELSE IF Lookup(key).func # Null THEN <<"Error", "action already registered">>
  ELSE IF typeof(key) # "string" THEN <<"TypeError", "key argument must be a string">>
  ELSE IF typeof(func) # "function" THEN <<"TypeError", "func argument must be a function">>
  ELSE <<UndefinedValue, "">>

\* The checks of registerAsync, in order: what it throws, or UndefinedValue
\* when it goes on to define the property.
registerAsyncCheck(key, func) ==
  IF typeof(key) # "string" THEN <<"TypeError", "key argument must be a string">>
  ELSE IF typeof(func) # "function" THEN <<"TypeError", "func argument must be a function">>
  ELSE IF Lookup(key).type = "undefined" THEN <<"Error", "action not declared">>
  ELSE IF Lookup(key).func # Null THEN <<"Error", "action already registered">>
  ELSE <<UndefinedValue, "">>

\* A value whose subscribers are one array shared by all the actions.
registerAsyncValueShared(key, func, arr) ==
  [type |-> "object", subscribers |-> 1, func |-> func]

\* The value registerAsync gives the property; arr is the new array [].
registerAsyncValue(key, func, arr) ==
  [type |-> "object", subscribers |-> arr, func |-> func]

registerAsync(key, func) ==
  /\ UserTurn
  /\ LET out == registerAsyncCheck(key, func) IN
     /\ last' = Note(Ev("registerAsync", key, func, out[1], out[2]))
     /\ IF out[1] = UndefinedValue
        THEN /\ actions' = defineProperty(actions, key,
                                          registerAsyncValue(key, func, Len(heap) + 1))
             /\ heap' = Collect(Append(heap, <<>>), actions', stack)
        ELSE UNCHANGED <<actions, heap>>
  /\ UNCHANGED <<stack, dones, before, unsubbed, observe>>

\* ------------------------------------------------------- on
\* on without the check for a callback already subscribed.
onResultNoIncludes(key, callback) ==
  IF typeof(key) # "string" THEN <<"TypeError", "key argument must be a string">>
  ELSE IF typeof(callback) # "function" THEN <<"TypeError", "callback argument must be a function">>
  ELSE IF Lookup(key).subscribers = NoArray
       THEN <<"TypeError", "cannot read properties of undefined">>
  ELSE <<callback, "">>

\* What on(key, callback) throws or returns.
onResult(key, callback) ==
  IF typeof(key) # "string" THEN <<"TypeError", "key argument must be a string">>
  ELSE IF typeof(callback) # "function" THEN <<"TypeError", "callback argument must be a function">>
  ELSE IF Lookup(key).subscribers = NoArray
       THEN <<"TypeError", "cannot read properties of undefined">>
  ELSE IF ~includes(heap[Lookup(key).subscribers], callback) THEN <<callback, "">>
  ELSE <<UndefinedValue, "">>

on(key, callback) ==
  /\ UserTurn
  /\ LET out == onResult(key, callback) IN
     /\ last' = Note(Ev("on", key, callback, out[1], out[2]))
     /\ IF out[1] = callback
        THEN /\ heap' = [heap EXCEPT ![Lookup(key).subscribers] = push(@, callback)]
             /\ stack' = Touch(stack, key, {callback})
             /\ before' = IF "order" \in observe THEN Subscribed(before, key, callback) ELSE before
             /\ unsubbed' = unsubbed \ {<<key, callback>>}
        ELSE UNCHANGED <<heap, stack, before, unsubbed>>
  /\ UNCHANGED <<actions, dones, observe>>

\* ------------------------------------------------------- unsubscribe
\* "undefined" when unsubscribe returns, "TypeError" when reading
\* action.subscribers.length throws.
unsubscribeResult(key, callback) ==
  IF Truthy(Lookup(key)) /\ Lookup(key).subscribers = NoArray
  THEN <<"TypeError", "cannot read properties of undefined">>
  ELSE <<UndefinedValue, "">>

unsubscribe(key, callback) ==
  /\ UserTurn
  /\ LET out == unsubscribeResult(key, callback)
         action == Lookup(key) IN
     /\ last' = Note(Ev("unsubscribe", key, callback, out[1], out[2]))
     /\ IF Truthy(action) /\ out[1] = UndefinedValue
        THEN /\ heap' = [heap EXCEPT ![action.subscribers] = unsubscribeLoop(@, callback)]
             /\ stack' = IF includes(heap[action.subscribers], callback)
                         THEN Removed(Touch(stack, key, {}), key, callback) ELSE stack
             /\ before' = IF "order" \in observe THEN Unsubscribed(before, key, callback) ELSE before
             /\ unsubbed' = IF "unsub" \in observe THEN unsubbed \cup {<<key, callback>>} ELSE unsubbed
        ELSE UNCHANGED <<heap, stack, before, unsubbed>>
  /\ UNCHANGED <<actions, dones, observe>>

\* ------------------------------------------------------- publish
\* What publish(key, data) does on entry: "none" when the lookup is falsy,
\* "TypeError" when action.subscribers is not iterable, "loop" otherwise.
publishEntry(key) ==
  IF ~Truthy(Lookup(key)) THEN "none"
  ELSE IF Lookup(key).subscribers = NoArray THEN "TypeError"
  ELSE "loop"

\* An iterator that starts at the second element.
PublishFrameFromSecond(via, key, data) ==
  [kind |-> "publish", via |-> via, key |-> key, data |-> data,
   arr |-> Lookup(key).subscribers, idx |-> 1,
   start |-> heap[Lookup(key).subscribers], log |-> <<>>, dirty |-> FALSE,
   banned |-> {c \in Callbacks : <<key, c>> \in unsubbed},
   order |-> {t \in before : t[1] = key}, removed |-> {}]

\* A loop that iterates the subscribers of the first declared action,
\* whatever the key.
PublishFrameOfFirst(via, key, data) ==
  [kind |-> "publish", via |-> via, key |-> key, data |-> data,
   arr |-> Lookup(DeclaredOrder[1]).subscribers, idx |-> 0,
   start |-> heap[Lookup(DeclaredOrder[1]).subscribers], log |-> <<>>, dirty |-> FALSE,
   banned |-> {c \in Callbacks : <<key, c>> \in unsubbed},
   order |-> {t \in before : t[1] = key}, removed |-> {}]

\* The frame of a publish loop that starts: the array iterator of
\* action.subscribers at index 0.  via says who called publish.
PublishFrame(via, key, data) ==
  [kind |-> "publish", via |-> via, key |-> key, data |-> data,
   arr |-> Lookup(key).subscribers, idx |-> 0,
   start |-> heap[Lookup(key).subscribers], log |-> <<>>, dirty |-> FALSE,
   banned |-> {c \in Callbacks : <<key, c>> \in unsubbed},
   order |-> {t \in before : t[1] = key}, removed |-> {}]

\* publish(key, data) called from via: the stack and the step.
EnterPublish(via, key, data) ==
  LET e == publishEntry(key) IN
  /\ stack' = IF e = "loop" THEN Append(stack, PublishFrame(via, key, data)) ELSE stack
  /\ last' = Note(Ev(via, key, data, IF e = "TypeError" THEN "TypeError" ELSE UndefinedValue,
                     IF e = "TypeError" THEN "undefined is not iterable" ELSE "")
                  @@ [to |-> e])

publish(key, data) ==
  /\ UserTurn
  /\ EnterPublish("publish", key, data)
  /\ UNCHANGED <<actions, heap, dones, before, unsubbed, observe>>

\* for (const each of action.subscribers) each(data): one turn of the loop.
\* The array iterator reads the array's length and element at every turn.
PublishStep ==
  /\ Len(stack) > 0
  /\ Top.kind = "publish"
  /\ Top.idx < Len(heap[Top.arr])
  /\ LET each == heap[Top.arr][Top.idx + 1] IN
     /\ stack' = Append([stack EXCEPT ![Len(stack)] =
                            [@ EXCEPT !.idx = @ + 1, !.log = Append(@, <<each, Top.data>>)]],
                        [kind |-> "cb", fn |-> each, key |-> Top.key, data |-> Top.data])
     /\ last' = Ev("invoke", Top.key, each, Top.data, "")
                  @@ [via |-> Top.via, banned |-> each \in Top.banned]
  /\ UNCHANGED <<actions, heap, dones, before, unsubbed, observe>>

\* The iterator is exhausted: publish returns (and with it call or done).
PublishReturn ==
  /\ Len(stack) > 0
  /\ Top.kind = "publish"
  /\ Top.idx >= Len(heap[Top.arr])
  /\ stack' = Pop(stack)
  /\ heap' = Collect(heap, actions, stack')
  /\ last' = Ev("publishReturn", Top.key, Top.data, UndefinedValue, "")
               @@ [via |-> Top.via, start |-> Top.start, log |-> Top.log, dirty |-> Top.dirty,
                   removed |-> Top.removed]
  /\ UNCHANGED <<actions, dones, before, unsubbed, observe>>

\* ------------------------------------------------------- call
\* A call that never looks at the action's func.
callBranchNoFunc(action) ==
  IF ~Truthy(action) THEN "none" ELSE "publish"

\* A call that is dropped when a subscriber makes it while a publish loop
\* is running.
callBranchNoReentry(action) ==
  IF ~Truthy(action) THEN "none"
  ELSE IF (IF Len(stack) > 0 THEN Top.kind = "cb" ELSE FALSE) THEN "none"
  ELSE IF typeof(action.func) = "function" THEN "func"
  ELSE "publish"

\* The branch call takes.
callBranch(action) ==
  IF ~Truthy(action) THEN "none"
  ELSE IF typeof(action.func) = "function" THEN "func"
  ELSE "publish"

call(key, data) ==
  /\ UserTurn
  /\ LET action == Lookup(key) IN
     CASE callBranch(action) = "func" ->
            /\ dones' = dones \cup {key}
            /\ stack' = Append(stack, [kind |-> "handler", fn |-> action.func,
                                       key |-> key, data |-> data])
            /\ last' = Note(Ev("call", key, data, UndefinedValue, "") @@ [to |-> "func"])
       [] callBranch(action) = "publish" ->
            /\ EnterPublish("call", key, data)
            /\ UNCHANGED dones
       [] OTHER ->
            /\ last' = Note(Ev("call", key, data, UndefinedValue, "") @@ [to |-> "none"])
            /\ UNCHANGED <<stack, dones>>
  /\ UNCHANGED <<actions, heap, before, unsubbed, observe>>

\* ------------------------------------------------------- buildDoneFunction
\* buildDoneFunction(key), called by user code: it returns a new done
\* function for the key, whatever the key is, and looks nothing up.
buildDoneFunction(key) ==
  /\ UserTurn
  /\ dones' = dones \cup {key}
  /\ last' = Note(Ev("buildDoneFunction", key, "", "function", ""))
  /\ UNCHANGED <<actions, heap, stack, before, unsubbed, observe>>

\* A done function made by buildDoneFunction(key), in call or by user code,
\* is invoked by user code, during the call that made it or at any later
\* time: it calls publish(key, data).
done(key, data) ==
  /\ UserTurn
  /\ key \in dones
  /\ EnterPublish("done", key, data)
  /\ UNCHANGED <<actions, heap, dones, before, unsubbed, observe>>

\* ------------------------------------------------------- user functions
\* The handler or callback on top of the stack returns.
UserReturn ==
  /\ Len(stack) > 0
  /\ Top.kind \in UserKinds
  /\ stack' = Pop(stack)
  /\ last' = Note(Ev("return", Top.key, Top.fn, UndefinedValue, ""))
  /\ UNCHANGED <<actions, heap, dones, before, unsubbed, observe>>

\* A publish loop that catches what a subscriber throws and goes on: the
\* stack is unwound to the loop's own frame.
CatcherInLoop(stk) == Len(stk) - 1

\* The innermost user function below the top of the stack, 0 when none.
Catcher(stk) ==
  LET js == {j \in 1..(Len(stk) - 1) : stk[j].kind \in UserKinds} IN
  IF js = {} THEN 0 ELSE CHOOSE j \in js : \A k \in js : k <= j

\* The handler or callback on top of the stack throws.  publish and call
\* catch nothing: the stack unwinds to the user function that called into
\* the registry, or to the top level.
UserThrow ==
  /\ Len(stack) > 0
  /\ Top.kind \in UserKinds
  /\ stack' = SubSeq(stack, 1, Catcher(stack))
  /\ last' = Ev("throw", Top.key, Top.fn, "Thrown", "")
               @@ [aborted |-> SubSeq(stack, Catcher(stack) + 1, Len(stack) - 1)]
  /\ heap' = Collect(heap, actions, stack')
  /\ UNCHANGED <<actions, dones, before, unsubbed, observe>>

\* ------------------------------------------------------- steps
\* The frames of the stack are read through these: the frame i, and whether
\* the step taken is a call of method op by user code.
IsPublish(f) == f.kind = "publish"
IsUser(f) == f.kind \in UserKinds

\* ------------------------------------------------------- specifications
\* The application's top level is running: no registry method is active.
TopLevel == Len(stack) = 0

\* There is room on the stack for n more frames.
Room(n) == Len(stack) + n <= MaxDepth

\* The registry driven from the application's top level with every kind of
\* argument.  Handlers invoke done functions, return or throw; subscriber
\* callbacks return or throw.
Next ==
  \/ \E key \in Keys, func \in Handlers \cup {NotCallable} :
        TopLevel /\ registerAsync(key, func)
  \/ \E key \in Keys, callback \in Callbacks \cup {NotCallable} :
        TopLevel /\ on(key, callback)
  \/ \E key \in Keys, callback \in Callbacks :
        TopLevel /\ unsubscribe(key, callback)
  \/ \E key \in Keys, data \in Data :
        TopLevel /\ call(key, data)
  \/ \E key \in Keys, data \in Data :
        TopLevel /\ publish(key, data)
  \/ \E key \in Declared : TopLevel /\ buildDoneFunction(key)
  \/ \E key \in Keys, data \in Data :
        (IF TopLevel THEN TRUE ELSE Top.kind = "handler") /\ done(key, data)
  \/ PublishStep
  \/ PublishReturn
  \/ UserReturn
  \/ UserThrow

Spec == Init /\ [][Next]_vars

\* The registry re-entered: handlers and subscriber callbacks call the
\* registry's methods too, on declared actions and with callable arguments,
\* as long as the stack has room for the frames of a publish loop and of the
\* subscriber it invokes.
NextReentrant ==
  \/ \E key \in Declared : registerAsync(key, "h1")
  \/ \E key \in Declared, callback \in Callbacks : on(key, callback)
  \/ \E key \in Declared, callback \in Callbacks : unsubscribe(key, callback)
  \/ \E key \in Declared : Room(2) /\ call(key, "d1")
  \/ \E key \in Declared : Room(2) /\ done(key, "d2")
  \/ PublishStep
  \/ PublishReturn
  \/ UserReturn
  \/ UserThrow

SpecReentrant == InitWith({}) /\ [][NextReentrant]_vars

\* Keeping the history of unsubscribe calls.
SpecUnsub == InitWith({"unsub"}) /\ [][NextReentrant]_vars

\* Keeping the history of the order of subscriptions.
\* The callbacks subscribed to key in the runs about order: three to the
\* first declared action, two to the others.
CallbacksOf(key) == IF key = DeclaredOrder[1] THEN OrderCallbacks ELSE Callbacks

\* Three callbacks to subscribe: the top level subscribes and unsubscribes
\* them and attaches handlers, between the calls it makes.
NextOrder ==
  \/ \E key \in Declared : TopLevel /\ registerAsync(key, "h1")
  \/ \E key \in Declared, callback \in OrderCallbacks :
        TopLevel /\ callback \in CallbacksOf(key) /\ on(key, callback)
  \/ \E key \in Declared, callback \in OrderCallbacks :
        TopLevel /\ callback \in CallbacksOf(key) /\ unsubscribe(key, callback)
  \/ \E key \in Declared : Room(2) /\ call(key, "d1")
  \/ \E key \in Declared : Room(2) /\ done(key, "d2")
  \/ PublishStep
  \/ PublishReturn
  \/ UserReturn
  \/ UserThrow

SpecOrder == InitWith({"order"}) /\ [][NextOrder]_vars

\* Keeping the history of the callbacks unsubscribed while a loop runs.
SpecCycle == InitWith({"cycle"}) /\ [][NextReentrant]_vars

\* Keeping the method calls user code makes, with their arguments.
SpecCalls == InitWith({"calls"}) /\ [][NextReentrant]_vars

\* Nested calls: the subscriptions and handlers are set up from the top
\* level; the top level, subscribers and handlers call the actions, and a
\* handler invokes the done function it was given, as long as the stack has
\* room for the frames of a publish loop and of the subscriber it invokes.
NextNested ==
  \/ \E key \in Declared : TopLevel /\ registerAsync(key, "h1")
  \/ \E key \in Declared, callback \in Callbacks : TopLevel /\ on(key, callback)
  \/ \E key \in Declared, data \in Data :
        Len(stack) + 2 <= NestedDepth /\ call(key, data)
  \/ \E key \in Declared :
        /\ Len(stack) + 2 <= NestedDepth
        /\ (IF Len(stack) > 0 THEN Top.kind = "handler" /\ Top.key = key ELSE FALSE)
        /\ done(key, "d2")
  \/ PublishStep
  \/ PublishReturn
  \/ UserReturn
  \/ UserThrow

SpecNested == InitWith({"calls"}) /\ [][NextNested]_vars

\* One publish loop at a time: call and done are invoked from the top level
\* only; handlers and subscribers call on, unsubscribe and registerAsync.
NextCycle ==
  \/ \E key \in Declared : registerAsync(key, "h1")
  \/ \E key \in Declared, callback \in Callbacks : on(key, callback)
  \/ \E key \in Declared, callback \in Callbacks : unsubscribe(key, callback)
  \/ \E key \in Declared : TopLevel /\ call(key, "d1")
  \/ \E key \in Declared : TopLevel /\ done(key, "d2")
  \/ PublishStep
  \/ PublishReturn
  \/ UserReturn
  \/ UserThrow

\* The loop of publish takes its next turn or returns, and a handler or
\* subscriber that is running returns in the end.
SpecTerminates ==
  /\ InitWith({})
  /\ [][NextCycle]_vars
  /\ WF_vars(PublishStep)
  /\ WF_vars(PublishReturn)
  /\ WF_vars(UserReturn)

\* Done functions: user code, at the top level or in a handler, makes done
\* functions for keys of every kind with buildDoneFunction, and invokes them
\* and those that call handed to a handler.
NextDone ==
  \/ \E key \in Declared : TopLevel /\ registerAsync(key, "h1")
  \/ \E key \in Declared, callback \in Callbacks : TopLevel /\ on(key, callback)
  \/ \E key \in Declared : TopLevel /\ call(key, "d1")
  \/ \E key \in Keys :
        (IF TopLevel THEN TRUE ELSE Top.kind = "handler") /\ buildDoneFunction(key)
  \/ \E key \in Keys :
        (IF TopLevel THEN TRUE ELSE Top.kind = "handler") /\ done(key, "d2")
  \/ PublishStep
  \/ PublishReturn
  \/ UserReturn
  \/ UserThrow

SpecDone == InitWith({"calls"}) /\ [][NextDone]_vars

\* ======================================================= claims

\* C1 (as the spec states it): a successful registerAsync(key, func) leaves
\* the action's subscriber sequence exactly as it was immediately before the
\* call, so callbacks subscribed before the handler was attached stay
\* subscribed, in the same order.
C1_RegisterAsyncKeepsSubscribers ==
  [][(last'.op = "registerAsync" /\ last'.res = UndefinedValue)
       => heap'[actions'[last'.key].subscribers] = Subscribers(last'.key)]_vars

\* C2: call(key, data) on a declared action with a handler invokes the
\* handler once, with a done function of this key and data, and invokes no
\* subscriber; a publish loop is started only by done, by publish or by call
\* on an action without handler; the loop done(key, result) starts is a loop
\* of key carrying result, and every callback a loop invokes receives the
\* loop's value.
C2_HandlerGatedPublish ==
  [][/\ (last'.op = "call" /\ last'.key \in Declared
           /\ typeof(actions[last'.key].func) = "function")
          => /\ stack' = Append(stack, [kind |-> "handler", fn |-> actions[last'.key].func,
                                        key |-> last'.key, data |-> last'.arg])
             /\ last'.key \in dones'
             /\ heap' = heap
     /\ (Len(stack') > Len(stack) /\ IsPublish(stack'[Len(stack')]))
          => /\ last'.op \in {"call", "done", "publish"}
             /\ last'.op = "call" => actions[last'.key].func = Null
             /\ stack'[Len(stack')].via = last'.op
             /\ stack'[Len(stack')].key = last'.key
             /\ stack'[Len(stack')].data = last'.arg
     /\ (Len(stack') > Len(stack) /\ stack'[Len(stack')].kind = "cb")
          => /\ last'.op = "invoke"
             /\ IsPublish(Top)
             /\ stack'[Len(stack')].data = Top.data
             /\ last'.res = Top.data]_vars

\* A subscriber is running with the value the handler passed to done, which
\* is not the payload the handler was called with.
C2_Witness ==
  /\ Len(stack) = 3
  /\ stack[1].kind = "handler" /\ stack[2].kind = "publish" /\ stack[3].kind = "cb"
  /\ stack[2].via = "done" /\ stack[2].key = stack[1].key
  /\ stack[3].data = stack[2].data /\ stack[2].data # stack[1].data

\* C3: call(key, data) on a declared action without handler invokes every
\* callback subscribed to the action when call is made exactly once, in one
\* publish loop, each with data, and call returns after the last of them.
\* The loops meant are those during which no subscriber changes the action's
\* subscriber list (C15 and C16 are about those that do) and that no
\* subscriber ends by throwing (C11).
C3_NoHandlerPublishesAll ==
  (last.op = "publishReturn" /\ last.via = "call" /\ ~last.dirty)
    => last.log = [i \in 1..Len(last.start) |-> <<last.start[i], last.arg>>]

\* call on an action with two subscribers and no handler has returned.
C3_Witness ==
  /\ last.op = "publishReturn" /\ last.via = "call" /\ ~last.dirty
  /\ Len(last.log) = 2 /\ last.log[1][1] # last.log[2][1]
  /\ actions[last.key].func = Null

\* C4: registerAsync(key, func) on a declared action, with a callable func,
\* attaches func when the action has no handler, and otherwise throws the
\* state error and changes neither the handler nor any subscriber list; and
\* no step at all changes or removes a handler that is attached.
C4_HandlerAttachedOnce ==
  [][/\ (last'.op = "registerAsync" /\ last'.key \in Declared /\ typeof(last'.arg) = "function")
          => IF actions[last'.key].func = Null
             THEN last'.res = UndefinedValue /\ actions'[last'.key].func = last'.arg
             ELSE last'.res = "Error" /\ actions' = actions /\ heap' = heap
     /\ \A k \in Declared :
          actions[k].func # Null => (k \in DOMAIN actions' /\ actions'[k].func = actions[k].func)]_vars

\* A second registerAsync, with another function, has been refused.
C4_Witness ==
  /\ last.op = "registerAsync" /\ last.res = "Error"
  /\ last.msg = "action already registered"
  /\ last.key \in Declared /\ actions[last.key].func \in Handlers \ {last.arg}

\* C5: once unsubscribe(key, cb) has returned, no publish loop of key that
\* starts afterwards (from call, done or publish) invokes cb, until an
\* on(key, cb) subscribes it again.  (A loop's frame holds in banned the
\* callbacks unsubscribed from its key before it started and not subscribed
\* again since.)
C5_UnsubscribedNotInvoked ==
  last.op = "invoke" => ~last.banned

\* A publish loop invokes a subscriber of an action from which a callback
\* that was subscribed has been unsubscribed before the loop started.
C5_Witness ==
  /\ last.op = "invoke"
  /\ Len(stack) >= 2
  /\ stack[Len(stack) - 1].kind = "publish"
  /\ stack[Len(stack) - 1].banned # {}
  /\ last.arg \notin stack[Len(stack) - 1].banned

\* C6: no action's subscriber array ever holds the same callback twice,
\* whatever user code, re-entrant or not, has called.
C6_NoDuplicateSubscribers ==
  \A a \in 1..Len(heap) : \A i, j \in 1..Len(heap[a]) : heap[a][i] = heap[a][j] => i = j

\* A subscriber callback has called on for a callback that is subscribed
\* already: on returned undefined and the array holds the callback once.
C6_Witness ==
  /\ last.op = "on" /\ last.res = UndefinedValue
  /\ Len(stack) > 0
  /\ \E k \in Declared : Len(Subscribers(k)) = Cardinality(Callbacks)

\* C7: a publish loop invokes the subscribers in the order in which their
\* subscriptions in force were made: of two callbacks a loop invokes, the
\* one invoked first is the one whose on came first, whatever on and
\* unsubscribe calls were made before the loop started; in particular the
\* callbacks left after an unsubscribe are invoked in the order they had (a
\* loop's frame holds in order the history of these calls when it started,
\* and is dirty once on or unsubscribe has changed its action's list while
\* it runs).
C7_SubscriptionOrder ==
  \A f \in 1..Len(stack) :
    (IsPublish(stack[f]) /\ ~stack[f].dirty)
      => \A i, j \in 1..Len(stack[f].log) :
           i < j => /\ stack[f].log[i][1] # stack[f].log[j][1]
                    /\ <<stack[f].key, stack[f].log[i][1], stack[f].log[j][1]>>
                         \in stack[f].order

\* A loop of an action from which a callback was unsubscribed that had been
\* subscribed between two others has invoked these two, in the order in
\* which they were subscribed.
C7_Witness ==
  /\ Len(stack) = 2 /\ IsPublish(stack[1]) /\ ~stack[1].dirty
  /\ Len(stack[1].log) = 2
  /\ stack[1].start = <<stack[1].log[1][1], stack[1].log[2][1]>>
  /\ <<stack[1].key, stack[1].log[1][1], stack[1].log[2][1]>> \in stack[1].order
  /\ <<stack[1].key, stack[1].log[1][1], stack[1].log[2][1], "gap">> \in stack[1].order
  /\ actions[stack[1].key].func = Null

\* The outcomes that are a thrown error.
Thrown == {"TypeError", "Error"}

\* The registry's own state: the actions, their arrays, the done functions.
Registry == <<actions, heap, dones>>

\* C8: the declared actions are the keys given to the constructor, each
\* constructed with no subscriber and no handler, and stay so: no step adds
\* or removes an action; on with a key outside never succeeds, registerAsync
\* with a key outside never attaches a handler, and call with a key outside
\* invokes no handler and no subscriber.
C8_DeclaredNamesFixed ==
  /\ DOMAIN actions = Declared
  /\ \A k \in Declared : Subscribers(k) = <<>> /\ actions[k].func = Null
  /\ [][/\ DOMAIN actions' = Declared
        /\ (last'.op \in {"on", "registerAsync"} /\ last'.key \notin Declared)
             => last'.res \in Thrown /\ Registry' = Registry /\ stack' = stack
        /\ (last'.op = "call" /\ last'.key \notin Declared)
             => Registry' = Registry /\ stack' = stack]_vars

\* registerAsync with an undeclared name has thrown, and so has on.
C8_Witness ==
  /\ last.op = "registerAsync" /\ last.key = Unknown /\ last.arg \in Handlers
  /\ last.res = "Error" /\ last.msg = "action not declared"
  /\ \E k \in Declared : actions[k].func # Null /\ Subscribers(k) # <<>>

\* C9 (as the spec states it): on(key, callback) with a string key that is
\* no declared action and a callable callback throws a state error, the
\* Error registerAsync throws for an undeclared action, not a TypeError.
C9_OnUndeclaredStateError ==
  (last.op = "on" /\ typeof(last.key) = "string" /\ last.key \notin Declared
     /\ typeof(last.arg) = "function")
    => last.res = "Error"

\* C10 (as the spec states it): call, publish and unsubscribe with a name
\* that is not a declared action, and unsubscribe of a callback that is not
\* subscribed to a declared action, throw nothing, invoke nothing and leave
\* every handler and subscriber array as it was.
C10_SilentNoOp ==
  [][(\/ /\ last'.op \in {"call", "publish", "unsubscribe"}
         /\ last'.key \in Keys \ Declared
      \/ /\ last'.op = "unsubscribe" /\ last'.key \in Declared
         /\ ~includes(Subscribers(last'.key), last'.arg))
       => /\ last'.res = UndefinedValue
          /\ stack' = stack
          /\ Registry' = Registry]_vars

\* C11: when a subscriber callback throws during a publish loop, the loop is
\* abandoned with it, so that no later subscriber is invoked by it; the
\* error reaches the code that called call, done or publish (the handler
\* that invoked done, or the top level), and no handler and no subscriber
\* array is changed by the throw.
C11_ThrowStopsCycle ==
  [][(last'.op = "throw" /\ Top.kind = "cb")
       => /\ Len(stack') <= Len(stack) - 2
          /\ stack' = SubSeq(stack, 1, Len(stack'))
          /\ IsPublish(stack[Len(stack) - 1])
          /\ \A i \in (Len(stack') + 1)..(Len(stack) - 1) : IsPublish(stack[i])
          /\ (IF Len(stack') = 0 THEN TRUE ELSE IsUser(stack'[Len(stack')]))
          /\ actions' = actions
          /\ \A k \in Declared : heap'[actions'[k].subscribers] = Subscribers(k)]_vars

\* The first of two subscribers has thrown out of a loop that done started:
\* the loop is gone, the second subscriber was not invoked and the handler
\* that invoked done is running.
C11_Witness ==
  /\ last.op = "throw" /\ last.arg \in Callbacks
  /\ Len(last.aborted) = 1
  /\ last.aborted[1].via = "done"
  /\ Len(last.aborted[1].start) = 2 /\ last.aborted[1].idx = 1
  /\ Len(stack) = 1 /\ stack[1].kind = "handler"
  /\ Subscribers(last.key) = last.aborted[1].start

\* C12: every invocation of a done function of a declared action (the done
\* functions call hands to handlers are of this kind), while a handler runs
\* or after the call has returned, starts exactly one publish loop, and loops
\* said to come from done start in no other way; the loop is over the
\* subscriber array its own action has when done is invoked, holding what
\* that array holds then; each callback it invokes is the next element of
\* its own action's array and receives the value given to done; and when it
\* returns it has invoked every subscriber of the action once, in order.
C12_DonePublishesEachTime ==
  [][/\ (last'.op = "done" /\ last'.key \in Declared)
          => /\ Len(stack') = Len(stack) + 1
             /\ SubSeq(stack', 1, Len(stack)) = stack
             /\ IsPublish(stack'[Len(stack')])
             /\ stack'[Len(stack')].via = "done"
             /\ stack'[Len(stack')].key = last'.key
             /\ stack'[Len(stack')].data = last'.arg
             /\ stack'[Len(stack')].arr = actions[last'.key].subscribers
             /\ stack'[Len(stack')].start = Subscribers(last'.key)
             /\ stack'[Len(stack')].idx = 0 /\ stack'[Len(stack')].log = <<>>
             /\ Registry' = Registry
     /\ (Len(stack') > Len(stack) /\ IsPublish(stack'[Len(stack')])
           /\ stack'[Len(stack')].via = "done")
          => last'.op = "done"
     /\ (last'.op = "invoke" /\ last'.via = "done")
          => /\ Top.arr = actions[Top.key].subscribers
             /\ \A k \in Declared \ {Top.key} : Top.arr # actions[k].subscribers
             /\ last'.arg = Subscribers(Top.key)[Top.idx + 1]
             /\ last'.res = Top.data
             /\ stack'[Len(stack')].data = Top.data
     /\ (last'.op = "publishReturn" /\ last'.via = "done")
          => /\ last'.start = Subscribers(last'.key)
             /\ last'.log = [i \in 1..Len(last'.start) |-> <<last'.start[i], last'.arg>>]]_vars

\* A done function invoked from the top level, after the call that made it
\* has returned, has delivered its value to the two subscribers of its
\* action, while the other action has a subscriber list of its own.
C12_Witness ==
  /\ last.op = "publishReturn" /\ last.via = "done"
  /\ Len(stack) = 0
  /\ actions[last.key].func # Null
  /\ Len(last.log) = 2 /\ last.log[1] = <<last.start[1], last.arg>>
  /\ \E k \in Declared \ {last.key} :
        Subscribers(k) # <<>> /\ Subscribers(k) # Subscribers(last.key)

\* C13: registerAsync and on with a key that is not a string, or with a
\* second argument that is not a function, throw a TypeError, whatever the
\* key names (a declared action, with or without handler, or none), and
\* leave the stack, the actions, their arrays and the done functions as
\* they were.
C13_TypeErrorFirst ==
  [][(/\ last'.op \in {"registerAsync", "on"}
      /\ (typeof(last'.key) # "string" \/ typeof(last'.arg) # "function"))
       => /\ last'.res = "TypeError"
          /\ last'.msg \in {"key argument must be a string",
                             "func argument must be a function",
                             "callback argument must be a function"}
          /\ Registry' = Registry
          /\ stack' = stack]_vars

\* registerAsync with something that is no function, on an action that has
\* a handler already, has thrown the TypeError and not the state error.
C13_Witness ==
  /\ last.op = "registerAsync" /\ last.arg = NotCallable
  /\ last.key \in Declared /\ actions[last.key].func \in Handlers
  /\ last.res = "TypeError" /\ last.msg = "func argument must be a function"

\* C14: on(key, callback) on a declared action with a function: when the
\* callback is not in the action's subscriber array, on returns the callback
\* and the array is the old one with the callback added at its end; when it
\* is, on returns undefined and the array is as it was.  Nothing else of the
\* registry changes.
C14_OnAppendsOrNothing ==
  [][(last'.op = "on" /\ last'.key \in Declared /\ typeof(last'.arg) = "function")
       => /\ IF ~includes(Subscribers(last'.key), last'.arg)
             THEN /\ last'.res = last'.arg
                  /\ heap'[actions'[last'.key].subscribers]
                       = Subscribers(last'.key) \o <<last'.arg>>
             ELSE /\ last'.res = UndefinedValue
                  /\ heap'[actions'[last'.key].subscribers] = Subscribers(last'.key)
          /\ actions' = actions /\ dones' = dones
          /\ \A k \in Declared \ {last'.key} :
                heap'[actions'[k].subscribers] = Subscribers(k)]_vars

\* on has returned the callback it was given and the callback is the second
\* and last subscriber of the action.
C14_Witness ==
  /\ last.op = "on" /\ last.key \in Declared /\ last.res = last.arg
  /\ last.arg \in Callbacks
  /\ Len(Subscribers(last.key)) = 2
  /\ Subscribers(last.key)[2] = last.arg /\ Subscribers(last.key)[1] # last.arg

\* The number of times a publish loop has invoked callback c.
Invocations(log, c) == Cardinality({i \in 1..Len(log) : log[i][1] = c})

\* C15 (as the spec states it): when a publish loop during which
\* unsubscribe removed subscribers of its action returns, it has invoked
\* exactly once every callback that was subscribed when it started and was
\* not itself unsubscribed while it ran.
C15_UnsubscribeSkipsNobody ==
  (last.op = "publishReturn" /\ last.removed # {})
    => \A c \in Callbacks :
         (includes(last.start, c) /\ c \notin last.removed)
           => Invocations(last.log, c) = 1

\* C16 (as the spec states it): a publish loop iterates the subscribers as
\* they were when it started, so every callback a loop has invoked was
\* subscribed to the action when the loop started; one that a subscriber
\* adds with on while the loop runs is not invoked by that loop.
C16_SnapshotIteration ==
  \A f \in 1..Len(stack) :
    IsPublish(stack[f])
      => \A i \in 1..Len(stack[f].log) : includes(stack[f].start, stack[f].log[i][1])

\* C20 (as the spec states it): a name that was not given to the
\* constructor and that the actions object resolves through an inherited
\* property is treated as any undeclared name: call, publish and unsubscribe
\* with it throw nothing and change nothing, and registerAsync with it and a
\* function throws the state error 'action not declared'.
C20_InheritedNameUndeclared ==
  [][/\ (last'.op \in {"call", "publish", "unsubscribe"} /\ last'.key = Inherited)
          => /\ last'.res = UndefinedValue
             /\ stack' = stack
             /\ Registry' = Registry
     /\ (last'.op = "registerAsync" /\ last'.key = Inherited
           /\ typeof(last'.arg) = "function")
          => /\ last'.res = "Error"
             /\ last'.msg = "action not declared"]_vars

\* C18: on, unsubscribe and registerAsync on a declared action leave the
\* handler and the subscriber array of every other declared action as they
\* were; and a publish loop of an action invokes the next element of the
\* array it took from its own action, an array that is never the array of
\* another action and, unless registerAsync has replaced it since the loop
\* started, is the one that holds the action's subscribers at that moment.
C18_ActionsIsolated ==
  [][/\ (last'.op \in {"on", "unsubscribe", "registerAsync"} /\ last'.key \in Declared)
          => \A k \in Declared \ {last'.key} :
               /\ actions'[k] = actions[k]
               /\ heap'[actions'[k].subscribers] = Subscribers(k)
     /\ (last'.op = "invoke")
          => /\ last'.key = Top.key
             /\ last'.arg = heap[Top.arr][Top.idx + 1]
             /\ \A k \in Declared \ {Top.key} : Top.arr # actions[k].subscribers
             /\ (Top.arr = actions[Top.key].subscribers)
                  => includes(Subscribers(Top.key), last'.arg)]_vars

\* A loop of one action invokes its subscriber while the other action has a
\* subscriber that is not subscribed to the first, and a handler.
C18_Witness ==
  /\ last.op = "invoke" /\ Len(stack) = 2
  /\ stack[1].start = <<last.arg>>
  /\ \E k \in Declared \ {last.key} :
        /\ actions[k].func # Null
        /\ Subscribers(k) # <<>>
        /\ ~includes(Subscribers(k), last.arg)

\* C17: a call a subscriber makes on a declared action enters that action's
\* handler or publish loop at once, on top of the subscriber's frame; a
\* subscriber or handler returns, and a loop returns, only from the top of
\* the stack, so everything the nested call started has ended before the
\* subscriber that made it returns; and every loop on the stack, whatever
\* calls its subscribers have made, has invoked the first subscribers of
\* its action in order, each with the loop's own payload, the subscriber it
\* invoked last being the one that runs right above it.
C17_NestedCallCompletes ==
  /\ [](\A f \in 1..Len(stack) :
          IsPublish(stack[f])
            => /\ stack[f].idx = Len(stack[f].log)
               /\ stack[f].idx <= Len(stack[f].start)
               /\ \A i \in 1..stack[f].idx :
                     stack[f].log[i] = <<stack[f].start[i], stack[f].data>>
               /\ (f < Len(stack)
                     => /\ stack[f + 1].kind = "cb"
                        /\ stack[f + 1].fn = stack[f].start[stack[f].idx]
                        /\ stack[f + 1].data = stack[f].data))
  /\ [][/\ (last'.op = "call" /\ last'.key \in Declared)
           => /\ Len(stack') = Len(stack) + 1
              /\ SubSeq(stack', 1, Len(stack)) = stack
              /\ stack'[Len(stack')].key = last'.key
              /\ stack'[Len(stack')].data = last'.arg
        /\ (last'.op \in {"return", "publishReturn"})
           => stack' = SubSeq(stack, 1, Len(stack) - 1)
        /\ (last'.op = "publishReturn")
           => last'.log = [i \in 1..Len(last'.start) |-> <<last'.start[i], last'.arg>>]]_vars

\* The loop a subscriber started with a nested call, through a handler that
\* invoked done, has returned after invoking a subscriber; the subscriber
\* that made the call is still running, and the outer loop, with another
\* payload, has its second subscriber still to invoke.
C17_Witness ==
  /\ last.op = "publishReturn" /\ last.via = "done" /\ Len(last.log) > 0
  /\ Len(stack) = 3
  /\ IsPublish(stack[1]) /\ stack[2].kind = "cb" /\ stack[3].kind = "handler"
  /\ stack[1].data # last.arg
  /\ stack[1].idx = 1 /\ Len(stack[1].start) = 2

\* C19: when handlers and subscribers call neither call nor done, a publish
\* loop invokes at most as many callbacks as there are callback references,
\* whatever on and unsubscribe calls its subscribers make on the action
\* while it runs, and whenever a call or done is in progress it returns.
C19_CycleTerminates ==
  /\ [](\A f \in 1..Len(stack) :
          IsPublish(stack[f]) => Len(stack[f].log) <= Cardinality(Callbacks))
  /\ (Len(stack) > 0) ~> (Len(stack) = 0)

\* A loop whose subscribers changed the action's subscriber list while it
\* ran has returned to the top level after two invocations.
C19_Witness ==
  /\ last.op = "publishReturn" /\ last.dirty
  /\ Len(stack) = 0
  /\ Len(last.log) = 2 /\ Len(last.start) = 1

====
